---- MODULE Spec2Model ----
(***************************************************************************)
(* Model of the request/response correlation engine of apyee               *)
(* (device.rs, command.rs).  Two revisions of device.rs are present:       *)
(*   "apyee" : src/apyee/src/device.rs  (check the registry, then wait;    *)
(*             5 s inner window, 20 s outer deadline)                      *)
(*   "src"   : src/src/device.rs        (wait, then check the registry;    *)
(*             3 s inner window, 10 s outer deadline)                      *)
(* The variable rev selects the revision; everything else is common.       *)
(*                                                                         *)
(* Time is counted in seconds and advances from one timer instant of the   *)
(* waiting call to the next; a runnable task runs to its next suspension   *)
(* point before time advances.                                             *)
(***************************************************************************)
EXTENDS Integers, Sequences, FiniteSets, TLC

\* ---------------------------------------------------------------- bounds
MaxCalls  == 2      \* execute_command calls made on the Device
NumIds    == 2      \* distinct command ids in use
MaxFrames == 3      \* frames the peer sends in one run
MaxWire   == 6      \* symbols buffered in the socket at one time
NumThreads == 2     \* tasks that call UniqueCommandId::next
MaxNext    == 2     \* calls of UniqueCommandId::next made by one task

\* ------------------------------------------------------ program constants
InnerWindowApyee   == 5
OuterDeadlineApyee == 20
InnerWindowSrc     == 3
OuterDeadlineSrc   == 10

Revisions == {"apyee", "src"}
Ids       == 1..NumIds
Listener  == "listener"   \* owner tag of the listener task in a lock
Caller    == "caller"     \* owner tag of the call in progress
Free      == "free"       \* owner tag of an unlocked mutex

VARIABLES
  rev,          \* revision of device.rs in force
  responses,    \* Responses.responses : HashMap<i32, CommandResponse>
  regLock,      \* owner of Device.responses (Mutex<Responses>)
  streamLock,   \* owner of Device.tcp_stream (Mutex<TcpStream>)
  permit,       \* Notify: a stored notify_one permit
  waiters,      \* Notify: queue of tasks registered in notified()
  wire,         \* bytes sent by the peer and not yet read
  peer,         \* read side of the socket: "open", "eof" or "error"
  outbox,       \* bytes written to the socket by execute_command
  lpc,          \* listen_responses: position
  lerr,         \* listen_responses: error it returned, if any
  entries,      \* listen_responses: entries of the current read left to do
  call,         \* execute_command: the call in progress or last returned
  timedOut,     \* history: ids of earlier calls that returned Timeout
  owed,         \* history: per id, whole response frames sent by the peer
                \*          minus Responses::add calls
  delivered,    \* history: ids whose last added response was returned
  nframes,      \* history: frames sent by the peer
  handled       \* history: the document of the entry the listener handled
                \*          last in the current read, and what it was
                \*          accepted as

\* The functions that are checked on their own have their state here.
VARIABLES
  command_id,   \* UniqueCommandId.id : AtomicI32
  returned,     \* history: the values UniqueCommandId::next returned, in
                \*          the order of the increments, with the caller
  rgb,          \* get_rgb_color: the arguments and the value returned
  cmd           \* a Command, its JSON text and the Command parsed from it

fnvars == <<command_id, returned, rgb, cmd>>

dvars == <<handled, rev, responses, regLock, streamLock, permit, waiters,
           wire, peer, outbox, lpc, lerr, entries, call, timedOut, owed,
           delivered, nframes>>

vars == <<fnvars, dvars>>

\* -------------------------------------------------------------- wire data
\* A JSON document is modelled by the fields that decide how serde parses it.
Doc(json, id, result, error, method, params) ==
  [json |-> json, id |-> id, result |-> result, error |-> error,
   method |-> method, params |-> params]

\* {"id":i,"result":["ok"],"error":null}
ResponseDoc(i) == Doc(TRUE, i, "list", "null", "absent", "absent")
\* {"method":"props","params":{"power":"on"}}
NotificationDoc == Doc(TRUE, 0, "absent", "absent", "string", "map")
\* text that is no JSON document
GarbageDoc == Doc(FALSE, 0, "absent", "absent", "absent", "absent")

\* The text of a document travels as two symbols (its first and second
\* half), so that a read can end in the middle of a frame.
Text(d) == << [sym |-> "text", doc |-> d, part |-> 1],
              [sym |-> "text", doc |-> d, part |-> 2] >>
CRLF    == [sym |-> "crlf"]
BadByte == [sym |-> "bad"]      \* a byte that is not valid UTF-8
Frame(d) == Text(d) \o <<CRLF>>

PeerDocs   == {ResponseDoc(i) : i \in Ids} \cup {NotificationDoc, GarbageDoc}
PeerFrames == {Frame(d) : d \in PeerDocs} \cup {<<BadByte, CRLF>>}

\* {"id":i,"method":"toggle","params":[]}
CommandDoc(i) == Doc(TRUE, i, "absent", "absent", "string", "list")

\* std::str::from_utf8(&buffer[..n]) succeeds
ValidUtf8(chunk) == \A k \in 1..Len(chunk) : chunk[k] # BadByte

\* data.split_terminator("\r\n"): the pieces between terminators; a piece
\* after the last terminator is kept only when it is not empty.
RECURSIVE SplitFrom(_, _)
SplitFrom(chunk, cur) ==
  IF chunk = <<>> THEN (IF cur = <<>> THEN <<>> ELSE <<cur>>)
  ELSE IF Head(chunk) = CRLF THEN <<cur>> \o SplitFrom(Tail(chunk), <<>>)
  ELSE SplitFrom(Tail(chunk), Append(cur, Head(chunk)))

SplitTerminator(chunk) == SplitFrom(chunk, <<>>)

\* serde_json reads an entry only when it is the whole text of one document.
WholeDocument(e) ==
  /\ Len(e) = 2
  /\ e[1].sym = "text" /\ e[2].sym = "text"
  /\ e[1].part = 1 /\ e[2].part = 2
  /\ e[1].doc = e[2].doc
  /\ e[1].doc.json

\* (a parse in which every field has a default)
ParsesAsCommandResponse_all_optional(e) == WholeDocument(e)

\* (a parse that needs the error field to be there)
ParsesAsCommandResponse_error_required(e) ==
  /\ WholeDocument(e)
  /\ e[1].doc.id \in Ids
  /\ e[1].doc.result = "list"
  /\ e[1].doc.error \in {"null", "object"}

\* serde_json::from_str::<CommandResponse>(entry) is Ok: id and result are
\* required, error is an Option, other fields are ignored.
ParsesAsCommandResponse(e) ==
  /\ WholeDocument(e)
  /\ e[1].doc.id \in Ids
  /\ e[1].doc.result = "list"
  /\ e[1].doc.error \in {"absent", "null", "object"}

CommandResponse(e) ==
  [id |-> e[1].doc.id,
   error |-> IF e[1].doc.error = "object" THEN "some" ELSE "none"]

\* serde_json::from_str::<NotificationResult>(entry) is Ok
ParsesAsNotificationResult(e) ==
  /\ WholeDocument(e)
  /\ e[1].doc.method = "string"
  /\ e[1].doc.params = "map"

NoResponse == [id |-> 0, error |-> "none"]

\* The body of `for entry in entries`: the two `if let` statements follow
\* each other, so both parses are tried on every entry.  Handled(e) is the
\* document of the entry (GarbageDoc when the entry is not the whole text
\* of a document) and the kinds whose `if let` body was entered for it;
\* old is the response the registry held under the id before the add.
Handled(e) ==
  [doc |-> IF WholeDocument(e) THEN e[1].doc ELSE GarbageDoc,
   as  |-> (IF ParsesAsCommandResponse(e) THEN {"response"} ELSE {})
             \cup (IF ParsesAsNotificationResult(e) THEN {"notification"}
                                                   ELSE {}),
   old |-> NoResponse]

NotHandled == [doc |-> GarbageDoc, as |-> {}, old |-> NoResponse]

\* (an add that files the response under another key than its id)
add_wrong_key(map, response) ==
  LET key == (response.id % NumIds) + 1 IN
    [k \in DOMAIN map \cup {key} |-> IF k = key THEN response ELSE map[k]]

\* (an add that keeps the response that is already there)
add_keep_old(map, response) ==
  [k \in DOMAIN map \cup {response.id} |->
     IF k \in DOMAIN map THEN map[k] ELSE response]

\* Responses::add
add(map, response) ==
  [k \in DOMAIN map \cup {response.id} |->
     IF k = response.id THEN response ELSE map[k]]

\* (a consume that returns whatever entry it finds first)
consumed_any(map, id) ==
  IF DOMAIN map = {} THEN NoResponse
  ELSE map[CHOOSE k \in DOMAIN map : \A j \in DOMAIN map : k <= j]

\* (a consume that reads the entry and leaves it in the map)
consume_keep(map, id) == map

\* Responses::consume: the value returned and the map left behind
consumed(map, id) == IF id \in DOMAIN map THEN map[id] ELSE NoResponse
consume(map, id)  == [k \in DOMAIN map \ {id} |-> map[k]]

InnerWindow   == IF rev = "apyee" THEN InnerWindowApyee ELSE InnerWindowSrc
OuterDeadline == IF rev = "apyee" THEN OuterDeadlineApyee ELSE OuterDeadlineSrc

\* execute_command takes &mut self, so at most one call on a Device is in
\* progress; call.n numbers the calls in the order they are made.
\* History kept with the call: present (its response was in the registry
\* when the write ended), arrived (its response was inserted before the
\* outer deadline), lended (the listener had ended when it returned), woke
\* ("other": an insertion for another id woke it from its wait while its
\* own response was not in the registry; "own": after that, its own
\* response was inserted before it returned).
IdleCall ==
  [n |-> 0, id |-> 0, pc |-> "idle", outcome |-> "none",
   result |-> NoResponse, age |-> 0, waited |-> 0, cause |-> "none",
   present |-> FALSE, arrived |-> FALSE, lended |-> FALSE, pos |-> 0,
   woke |-> "none"]

ListenerEnded == lpc \in {"closed", "failed"}

\* an i32 as the two 16-bit halves of its bit pattern (two's complement)
I32(hi, lo) == [hi |-> hi, lo |-> lo]

NoRgb == [r |-> 0, g |-> 0, b |-> 0, out |-> -1]
NoCmd == [stage |-> "none"]

\* the functions checked on their own are not in use
FnIdle ==
  /\ command_id = I32(0, 15)
  /\ returned = << >>
  /\ rgb = NoRgb
  /\ cmd = NoCmd

DeviceInit ==
  /\ rev \in Revisions
  /\ responses = << >>
  /\ regLock = Free
  /\ streamLock = Free
  /\ permit = FALSE
  /\ waiters = << >>
  /\ wire = << >>
  /\ peer = "open"
  /\ outbox = << >>
  /\ lpc = "lock"
  /\ lerr = "none"
  /\ entries = << >>
  /\ call = IdleCall
  /\ timedOut = {}
  /\ owed = [i \in Ids |-> 0]
  /\ delivered = {}
  /\ nframes = 0
  /\ handled = NotHandled

Init == DeviceInit /\ FnIdle

\* ------------------------------------------------------------ tokio Notify
\* Notify::notify_one: the first registered waiter is woken; when no task
\* waits, one permit is stored (a second permit is not added).
\* (a notify_one that only stores the permit and wakes no waiter)
notify_one_permit_only(ws, p) == [waiters |-> ws, permit |-> TRUE, woken |-> {}]

notify_one(ws, p) ==
  IF ws = << >> THEN [waiters |-> ws, permit |-> TRUE, woken |-> {}]
  ELSE [waiters |-> Tail(ws), permit |-> p, woken |-> {Head(ws)}]

Without(ws, t) == SelectSeq(ws, LAMBDA w : w # t)

\* ------------------------------------------------------- execute_command
\* A new call starts when the Device is not mutably borrowed by a call in
\* progress.  The record of the call that returned before is dropped.
CallStart(i) ==
  /\ call.pc \in {"idle", "done"}
  /\ call.n < MaxCalls
  /\ call' = [IdleCall EXCEPT !.n = call.n + 1, !.id = i,
                              !.pc = "lock_stream"]
  /\ timedOut' = IF call.outcome = "Timeout" THEN timedOut \cup {call.id}
                                              ELSE timedOut
  /\ UNCHANGED <<fnvars, handled, rev, responses, regLock, streamLock, permit, waiters, wire,
                 peer, outbox, lpc, lerr, entries, owed, delivered, nframes>>

\* self.tcp_stream.lock().await
CallLockStream ==
  /\ call.pc = "lock_stream"
  /\ streamLock = Free
  /\ streamLock' = Caller
  /\ call' = [call EXCEPT !.pc = "write", !.pos = 0]
  /\ UNCHANGED <<fnvars, handled, rev, responses, regLock, permit, waiters, wire, peer,
                 outbox, lpc, lerr, entries, timedOut, owed, delivered,
                 nframes>>

\* (a command that is sent without its terminator)
JsonCommand_no_terminator(i) == Text(CommandDoc(i))

\* let json_command = format!("{}\r\n", json)
JsonCommand(i) == Text(CommandDoc(i)) \o <<CRLF>>

\* After the write the outer timeout starts.  The apyee revision goes to
\* the registry, the src revision waits.
AfterWrite == IF rev = "apyee" THEN "lock_reg" ELSE "notified"

\* .write_all(json_command.as_bytes()).await: the socket takes some of the
\* bytes that are left at each step (write_all may suspend in between, the
\* guard of the stream lock alive); after the last byte the statement ends
\* and the guard drops.
CallWrite ==
  /\ call.pc = "write"
  /\ peer # "error"
  /\ \E n \in 1..(Len(JsonCommand(call.id)) - call.pos) :
       LET pos == call.pos + n IN
         /\ outbox' = outbox \o SubSeq(JsonCommand(call.id), call.pos + 1, pos)
         /\ IF pos = Len(JsonCommand(call.id))
            THEN /\ streamLock' = Free
                 /\ call' = [call EXCEPT
                               !.pc = AfterWrite, !.age = 0, !.pos = pos,
                               !.present = (call.id \in DOMAIN responses)]
            ELSE /\ streamLock' = streamLock
                 /\ call' = [call EXCEPT !.pos = pos]
  /\ UNCHANGED <<fnvars, handled, rev, responses, regLock, permit, waiters, wire, peer,
                 lpc, lerr, entries, timedOut, owed, delivered, nframes>>

\* (a write whose error is dropped: the call goes on to wait)
CallWriteFails_ignored ==
  /\ call.pc = "write"
  /\ peer = "error"
  /\ streamLock' = Free
  /\ call' = [call EXCEPT !.pc = AfterWrite, !.age = 0]
  /\ UNCHANGED <<fnvars, handled, rev, responses, regLock, permit, waiters, wire, peer,
                 outbox, lpc, lerr, entries, timedOut, owed, delivered,
                 nframes>>

\* write_all fails (the connection was reset): the error is returned by
\* `?` and the guard drops.  Bytes written before the failure stay written.
CallWriteFails ==
  /\ call.pc = "write"
  /\ peer = "error"
  /\ streamLock' = Free
  /\ call' = [call EXCEPT !.pc = "done", !.outcome = "Io",
                          !.lended = ListenerEnded]
  /\ UNCHANGED <<fnvars, handled, rev, responses, regLock, permit, waiters, wire, peer,
                 outbox, lpc, lerr, entries, timedOut, owed, delivered,
                 nframes>>

\* self.responses.lock().await
CallLockRegistry ==
  /\ call.pc = "lock_reg"
  /\ regLock = Free
  /\ regLock' = Caller
  /\ call' = [call EXCEPT !.pc = "consume"]
  /\ UNCHANGED <<fnvars, handled, rev, responses, streamLock, permit, waiters, wire, peer,
                 outbox, lpc, lerr, entries, timedOut, owed, delivered,
                 nframes>>

\* (a consume whose guard is kept when no response is found, so that it
\* lives across the wait)
CallConsume_keeps_guard ==
  /\ call.pc = "consume"
  /\ LET r == consumed(responses, call.id) IN
       /\ responses' = consume(responses, call.id)
       /\ regLock' = IF r # NoResponse THEN Free ELSE regLock
       /\ call' = IF r # NoResponse
                  THEN [call EXCEPT !.pc = "done", !.outcome = "Ok",
                                    !.result = r, !.lended = ListenerEnded]
                  ELSE [call EXCEPT !.pc = "notified"]
       /\ delivered' = IF r # NoResponse THEN delivered \cup {call.id}
                                         ELSE delivered
  /\ UNCHANGED <<fnvars, handled, rev, streamLock, permit, waiters, wire, peer, outbox,
                 lpc, lerr, entries, timedOut, owed, nframes>>

\* if let Some(response) = ... .consume(command.id) { return Ok(response); }
CallConsume ==
  /\ call.pc = "consume"
  /\ LET r == consumed(responses, call.id) IN
       /\ responses' = consume(responses, call.id)
       /\ regLock' = Free
       /\ call' = IF r # NoResponse
                  THEN [call EXCEPT !.pc = "done", !.outcome = "Ok",
                                    !.result = r, !.lended = ListenerEnded]
                  ELSE [call EXCEPT !.pc = "notified"]
       /\ delivered' = IF r # NoResponse THEN delivered \cup {call.id}
                                         ELSE delivered
  /\ UNCHANGED <<fnvars, handled, rev, streamLock, permit, waiters, wire, peer, outbox,
                 lpc, lerr, entries, timedOut, owed, nframes>>

\* tokio::time::timeout(InnerWindow, self.notify.notified()): the inner
\* window starts; a stored permit completes the wait at once, otherwise the
\* call is queued as a waiter.
CallNotified ==
  /\ call.pc = "notified"
  /\ IF permit
     THEN /\ permit' = FALSE
          /\ waiters' = waiters
          /\ call' = [call EXCEPT !.pc = "lock_reg", !.waited = 0]
     ELSE /\ permit' = permit
          /\ waiters' = Append(waiters, Caller)
          /\ call' = [call EXCEPT !.pc = "wait", !.waited = 0]
  /\ UNCHANGED <<fnvars, handled, rev, responses, regLock, streamLock, wire, peer, outbox,
                 lpc, lerr, entries, timedOut, owed, delivered, nframes>>

\* (an inner timeout whose error is dropped: the loop goes round again)
InnerTimeout_ignored ==
  /\ call.pc = "wait"
  /\ call.waited = InnerWindow
  /\ waiters' = Without(waiters, Caller)
  /\ call' = [call EXCEPT !.pc = "lock_reg"]
  /\ UNCHANGED <<fnvars, handled, rev, responses, regLock, streamLock, permit, wire, peer,
                 outbox, lpc, lerr, entries, timedOut, owed, delivered,
                 nframes>>

\* (an inner timeout that sends the command again instead of returning)
InnerTimeout_resend ==
  /\ call.pc = "wait"
  /\ call.waited = InnerWindow
  /\ waiters' = Without(waiters, Caller)
  /\ call' = [call EXCEPT !.pc = "lock_stream"]
  /\ UNCHANGED <<fnvars, handled, rev, responses, regLock, streamLock, permit, wire, peer,
                 outbox, lpc, lerr, entries, timedOut, owed, delivered,
                 nframes>>

\* the inner timeout elapses: `.await?` returns DeviceError::Timeout
InnerTimeout ==
  /\ call.pc = "wait"
  /\ call.waited = InnerWindow
  /\ waiters' = Without(waiters, Caller)
  /\ call' = [call EXCEPT !.pc = "done", !.outcome = "Timeout",
                          !.cause = "inner", !.lended = ListenerEnded]
  /\ UNCHANGED <<fnvars, handled, rev, responses, regLock, streamLock, permit, wire, peer,
                 outbox, lpc, lerr, entries, timedOut, owed, delivered,
                 nframes>>

\* (an outer timeout whose error is dropped: the loop goes on)
OuterTimeout_ignored ==
  /\ call.pc = "wait"
  /\ call.age = OuterDeadline
  /\ call.waited < InnerWindow
  /\ waiters' = Without(waiters, Caller)
  /\ call' = [call EXCEPT !.pc = "notified"]
  /\ UNCHANGED <<fnvars, handled, rev, responses, regLock, streamLock, permit, wire, peer,
                 outbox, lpc, lerr, entries, timedOut, owed, delivered,
                 nframes>>

\* the outer timeout elapses while the call waits
OuterTimeout ==
  /\ call.pc = "wait"
  /\ call.age = OuterDeadline
  /\ call.waited < InnerWindow
  /\ waiters' = Without(waiters, Caller)
  /\ call' = [call EXCEPT !.pc = "done", !.outcome = "Timeout",
                          !.cause = "outer", !.lended = ListenerEnded]
  /\ UNCHANGED <<fnvars, handled, rev, responses, regLock, streamLock, permit, wire, peer,
                 outbox, lpc, lerr, entries, timedOut, owed, delivered,
                 nframes>>

\* Time advances to the next instant at which a timer of the waiting call
\* is due.  A runnable task runs before time advances, so time is counted
\* only while the call is suspended in its wait.
Min(a, b) == IF a < b THEN a ELSE b

Advance == Min(InnerWindow - call.waited, OuterDeadline - call.age)

Tick ==
  /\ call.pc = "wait"
  /\ Advance > 0
  /\ call' = [call EXCEPT !.age = @ + Advance, !.waited = @ + Advance]
  /\ UNCHANGED <<fnvars, handled, rev, responses, regLock, streamLock, permit, waiters, wire,
                 peer, outbox, lpc, lerr, entries, timedOut, owed, delivered,
                 nframes>>

\* ------------------------------------------------------ listen_responses
\* match tcp_stream.lock().await.try_read(&mut buffer): the lock is taken
\* and the socket is read in one step (try_read does not suspend).  The
\* guard is a temporary of the match scrutinee: it lives until the match
\* ends, so the listener keeps the stream lock in every arm.
\* Ok(n), n > 0: the read returns some prefix of the bytes that arrived.
\* from_utf8 fails on a bad byte and `?` ends the task; otherwise the chunk
\* is split into entries.  Nothing is kept from an earlier read.
ListenerRead ==
  /\ lpc = "lock"
  /\ streamLock = Free
  /\ peer # "error"
  /\ wire # << >>
  /\ \E n \in 1..Len(wire) :
       LET chunk == SubSeq(wire, 1, n) IN
         /\ wire' = SubSeq(wire, n + 1, Len(wire))
         /\ IF ValidUtf8(chunk)
            THEN /\ entries' = SplitTerminator(chunk)
                 /\ lpc' = "entry"
                 /\ lerr' = lerr
                 /\ streamLock' = Listener
            ELSE /\ entries' = << >>
                 /\ lpc' = "failed"
                 /\ lerr' = "Utf8"
                 /\ streamLock' = Free
  /\ UNCHANGED <<fnvars, handled, rev, responses, regLock, permit, waiters, peer, outbox,
                 call, timedOut, owed, delivered, nframes>>

\* Ok(0): the connection is closed, return Ok(())
ListenerReadEof ==
  /\ lpc = "lock"
  /\ streamLock = Free
  /\ peer = "eof"
  /\ wire = << >>
  /\ lpc' = "closed"
  /\ UNCHANGED <<fnvars, handled, rev, responses, regLock, streamLock, permit, waiters, wire, peer,
                 outbox, lerr, entries, call, timedOut, owed, delivered, nframes>>

\* Err(e), e.kind() == WouldBlock: sleep 100 ms, the guard still alive
ListenerWouldBlock ==
  /\ lpc = "lock"
  /\ streamLock = Free
  /\ peer = "open"
  /\ wire = << >>
  /\ lpc' = "sleep"
  /\ streamLock' = Listener
  /\ UNCHANGED <<fnvars, handled, rev, responses, regLock, permit, waiters, wire,
                 peer, outbox, lerr, entries, call, timedOut, owed, delivered,
                 nframes>>

\* the sleep is over: `continue` ends the match and drops the guard
ListenerWake ==
  /\ lpc = "sleep"
  /\ lpc' = "lock"
  /\ streamLock' = Free
  /\ UNCHANGED <<fnvars, handled, rev, responses, regLock, permit, waiters, wire, peer,
                 outbox, lerr, entries, call, timedOut, owed, delivered, nframes>>

\* (a read error that is treated like WouldBlock: the task sleeps and
\* reads again)
ListenerReadError_retry ==
  /\ lpc = "lock"
  /\ streamLock = Free
  /\ peer = "error"
  /\ lpc' = "sleep"
  /\ streamLock' = Listener
  /\ UNCHANGED <<fnvars, handled, rev, responses, regLock, permit, waiters, wire, peer,
                 outbox, lerr, entries, call, timedOut, owed, delivered, nframes>>

\* Err(e), any other error: return Err(e.into())
ListenerReadError ==
  /\ lpc = "lock"
  /\ streamLock = Free
  /\ peer = "error"
  /\ lpc' = "failed"
  /\ lerr' = "Io"
  /\ UNCHANGED <<fnvars, handled, rev, responses, regLock, streamLock, permit, waiters, wire, peer,
                 outbox, entries, call, timedOut, owed, delivered, nframes>>

\* for entry in entries: an entry that parses as a CommandResponse goes to
\* the registry; then, as for any other entry, the NotificationResult parse
\* is tried and its result is not used.  After the last entry the match
\* ends and the guard drops.
ListenerEntry ==
  /\ lpc = "entry"
  /\ IF entries = << >>
     THEN /\ lpc' = "lock"
          /\ streamLock' = Free
          /\ entries' = entries
          /\ handled' = NotHandled
     ELSE IF ParsesAsCommandResponse(Head(entries))
     THEN /\ lpc' = "lock_reg"
          /\ UNCHANGED <<streamLock, entries, handled>>
     ELSE /\ entries' = Tail(entries)
          /\ handled' = Handled(Head(entries))
          /\ UNCHANGED <<lpc, streamLock>>
  /\ UNCHANGED <<fnvars, rev, responses, regLock, permit, waiters, wire, peer,
                 outbox, lerr, call, timedOut, owed, delivered, nframes>>

\* responses.lock().await
ListenerLockRegistry ==
  /\ lpc = "lock_reg"
  /\ regLock = Free
  /\ regLock' = Listener
  /\ lpc' = "add"
  /\ UNCHANGED <<fnvars, handled, rev, responses, streamLock, permit, waiters, wire, peer,
                 outbox, lerr, entries, call, timedOut, owed, delivered, nframes>>

\* history: the outer timer of the call has started and had not run out
\* when the call was last seen running
BeforeDeadline ==
  /\ call.pc \in {"lock_reg", "consume", "notified", "wait", "done"}
  /\ call.outcome \in {"none", "Timeout"}
  /\ call.age < OuterDeadline

\* .add(response); notify.notify_one();
ListenerAdd ==
  /\ lpc = "add"
  /\ LET response == CommandResponse(Head(entries))
         notified == notify_one(waiters, permit) IN
       /\ responses' = add(responses, response)
       /\ regLock' = Free
       /\ permit' = notified.permit
       /\ waiters' = notified.waiters
       /\ owed' = [owed EXCEPT ![response.id] = @ - 1]
       /\ delivered' = delivered \ {response.id}
       /\ call' = [call EXCEPT
                     !.pc = IF Caller \in notified.woken
                            THEN "lock_reg" ELSE @,
                     !.arrived = @ \/ (call.id = response.id
                                       /\ BeforeDeadline),
                     !.woke = IF /\ Caller \in notified.woken
                                 /\ response.id # call.id
                                 /\ call.id \notin DOMAIN responses
                                 /\ call.woke = "none"
                              THEN "other"
                              ELSE IF /\ response.id = call.id
                                      /\ call.woke = "other"
                                      /\ call.pc # "done"
                              THEN "own" ELSE @]
  /\ entries' = Tail(entries)
  /\ handled' = [Handled(Head(entries)) EXCEPT
                   !.old = consumed(responses, Head(entries)[1].doc.id)]
  /\ lpc' = "entry"
  /\ UNCHANGED <<fnvars, rev, streamLock, wire, peer, outbox, lerr, timedOut,
                 nframes>>

\* ------------------------------------------------------------------ peer
PeerSend(f) ==
  /\ peer = "open"
  /\ nframes < MaxFrames
  /\ Len(wire) + Len(f) <= MaxWire
  /\ wire' = wire \o f
  /\ nframes' = nframes + 1
  /\ owed' = IF ParsesAsCommandResponse(SubSeq(f, 1, Len(f) - 1))
             THEN [owed EXCEPT ![f[1].doc.id] = @ + 1]
             ELSE owed
  /\ UNCHANGED <<fnvars, handled, rev, responses, regLock, streamLock, permit, waiters, peer,
                 outbox, lpc, lerr, entries, call, timedOut, delivered>>

\* the peer closes the connection
PeerClose ==
  /\ peer = "open"
  /\ peer' = "eof"
  /\ UNCHANGED <<fnvars, handled, rev, responses, regLock, streamLock, permit, waiters, wire,
                 outbox, lpc, lerr, entries, call, timedOut, owed, delivered, nframes>>

\* the connection breaks (reset): from now on reads and writes fail
PeerReset ==
  /\ peer \in {"open", "eof"}
  /\ peer' = "error"
  /\ UNCHANGED <<fnvars, handled, rev, responses, regLock, streamLock, permit, waiters, wire,
                 outbox, lpc, lerr, entries, call, timedOut, owed, delivered, nframes>>

\* Ids are interchangeable, so the n-th call is given one of the first n ids.
CallIds == {i \in Ids : i <= call.n + 1}

Next ==
  \/ \E i \in CallIds : CallStart(i)
  \/ CallLockStream
  \/ CallWrite
  \/ CallWriteFails
  \/ CallLockRegistry
  \/ CallConsume
  \/ CallNotified
  \/ InnerTimeout
  \/ OuterTimeout
  \/ Tick
  \/ ListenerRead
  \/ ListenerReadEof
  \/ ListenerWouldBlock
  \/ ListenerWake
  \/ ListenerReadError
  \/ ListenerEntry
  \/ ListenerLockRegistry
  \/ ListenerAdd
  \/ \E f \in PeerFrames : PeerSend(f)
  \/ PeerClose
  \/ PeerReset

Spec == Init /\ [][Next]_vars

\* ------------------------------------------- the listener on any document
\* The listener alone, no call in progress: the peer has sent one frame
\* whose document has any combination of the fields serde looks at, alone
\* or followed by one of the usual frames, and has closed the connection.
AnyDocs ==
  {Doc(TRUE, i, r, e, m, p) : i \in 0..NumIds, r \in {"absent", "list"},
                              e \in {"absent", "null", "object"},
                              m \in {"absent", "string"},
                              p \in {"absent", "list", "map"}}
    \cup {GarbageDoc}

AnyWire ==
  {Frame(d) : d \in AnyDocs}
    \cup {Frame(d) \o f : d \in AnyDocs, f \in PeerFrames}

\* the number of whole response frames with id i in the bytes w
Owed(w, i) ==
  Cardinality({k \in 1..Len(w) - 2 :
                 /\ ParsesAsCommandResponse(SubSeq(w, k, k + 1))
                 /\ w[k].doc.id = i
                 /\ w[k + 2] = CRLF})

ListenInit ==
  /\ FnIdle
  /\ rev \in Revisions
  /\ responses = << >>
  /\ regLock = Free
  /\ streamLock = Free
  /\ permit = FALSE
  /\ waiters = << >>
  /\ wire \in AnyWire
  /\ peer = "eof"
  /\ outbox = << >>
  /\ lpc = "lock"
  /\ lerr = "none"
  /\ entries = << >>
  /\ call = IdleCall
  /\ timedOut = {}
  /\ owed = [i \in Ids |-> Owed(wire, i)]
  /\ delivered = {}
  /\ nframes = Cardinality({k \in 1..Len(wire) : wire[k] = CRLF})
  /\ handled = NotHandled

ListenNext ==
  \/ ListenerRead
  \/ ListenerReadEof
  \/ ListenerEntry
  \/ ListenerLockRegistry
  \/ ListenerAdd

ListenSpec == ListenInit /\ [][ListenNext]_vars

\* -------------------------------------------------------- UniqueCommandId
Threads == 1..NumThreads

Limb == 65536       \* 2^16: an i32 is kept as two halves of 16 bits

MaxI32 == I32(32767, 65535)     \* i32::MAX,  0x7FFFFFFF
MinI32 == I32(32768, 0)         \* i32::MIN,  0x80000000

\* UniqueCommandId::new: rand::thread_rng().gen_range(15..1500)
StartIds == {I32(0, n) : n \in {15, 16, 700, 1499}}

\* the counter after earlier calls of next: close to i32::MAX, and close
\* to the bit pattern of -1, where the low half carries into the high one
\* and the high half wraps
LateIds == {I32(32767, 65534), MaxI32, I32(65535, 65534), I32(65535, 65535)}

\* (a load in place of the fetch_add: the counter is read and stays)
fetch_add_load_only(v) == [ret |-> v, new |-> v]

\* (a fetch_add that stops at i32::MAX instead of wrapping)
fetch_add_saturating(v) ==
  [ret |-> v,
   new |-> IF v = MaxI32 THEN v
           ELSE I32((v.hi + ((v.lo + 1) \div Limb)) % Limb, (v.lo + 1) % Limb)]

\* AtomicI32::fetch_add(1, Relaxed): one atomic step that returns the old
\* value and stores old + 1, wrapping around on overflow
fetch_add(v) ==
  [ret |-> v,
   new |-> I32((v.hi + ((v.lo + 1) \div Limb)) % Limb, (v.lo + 1) % Limb)]

IdInit ==
  /\ DeviceInit
  /\ command_id \in StartIds \cup LateIds
  /\ returned = << >>
  /\ rgb = NoRgb
  /\ cmd = NoCmd

\* fn next(&self) -> i32, called by task t
NextId(t) ==
  /\ Cardinality({k \in 1..Len(returned) : returned[k].thread = t}) < MaxNext
  /\ LET f == fetch_add(command_id) IN
       /\ command_id' = f.new
       /\ returned' = Append(returned, [thread |-> t, value |-> f.ret])
  /\ UNCHANGED <<dvars, rgb, cmd>>

IdNext == \E t \in Threads : NextId(t)

IdSpec == IdInit /\ [][IdNext]_vars

\* --------------------------------------------------------- execute_method
\* The calls are made through execute_method, which takes the id of the
\* command from the counter of the Device.  An id of the device model
\* stands for a value of the counter: it is the place at which the value
\* first appears among the values next() has returned, so that two calls
\* have the same id exactly when next() gave them the same value.
MethodStartIds == {I32(0, 15), MaxI32}

IdOf(seen, value) ==
  CHOOSE k \in 1..Len(seen) :
    /\ seen[k].value = value
    /\ \A j \in 1..(k - 1) : seen[j].value # value

MethodInit ==
  /\ DeviceInit
  /\ command_id \in MethodStartIds
  /\ returned = << >>
  /\ rgb = NoRgb
  /\ cmd = NoCmd

\* let command = Command::new(self.command_id.next(), method);
\* self.execute_command(command).await
ExecuteMethod ==
  /\ call.pc \in {"idle", "done"}
  /\ call.n < MaxCalls
  /\ LET f == fetch_add(command_id)
         seen == Append(returned, [thread |-> 1, value |-> f.ret]) IN
       /\ command_id' = f.new
       /\ returned' = seen
       /\ call' = [IdleCall EXCEPT !.n = call.n + 1,
                                   !.id = IdOf(seen, f.ret),
                                   !.pc = "lock_stream"]
  /\ timedOut' = IF call.outcome = "Timeout" THEN timedOut \cup {call.id}
                                              ELSE timedOut
  /\ UNCHANGED <<rgb, cmd, handled, rev, responses, regLock, streamLock,
                 permit, waiters, wire, peer, outbox, lpc, lerr, entries,
                 owed, delivered, nframes>>

\* let json = serde_json::to_string(&command)?  returns an error: the
\* call, made through execute_method, returns DeviceError::Json before it
\* touches the stream.
ExecuteMethodSerializeFails ==
  /\ call.pc \in {"idle", "done"}
  /\ call.n < MaxCalls
  /\ LET f == fetch_add(command_id)
         seen == Append(returned, [thread |-> 1, value |-> f.ret]) IN
       /\ command_id' = f.new
       /\ returned' = seen
       /\ call' = [IdleCall EXCEPT !.n = call.n + 1,
                                   !.id = IdOf(seen, f.ret),
                                   !.pc = "done", !.outcome = "Json",
                                   !.lended = ListenerEnded]
  /\ timedOut' = IF call.outcome = "Timeout" THEN timedOut \cup {call.id}
                                              ELSE timedOut
  /\ UNCHANGED <<rgb, cmd, handled, rev, responses, regLock, streamLock,
                 permit, waiters, wire, peer, outbox, lpc, lerr, entries,
                 owed, delivered, nframes>>

MethodNext ==
  \/ ExecuteMethod
  \/ ExecuteMethodSerializeFails
  \/ CallLockStream
  \/ CallWrite
  \/ CallWriteFails
  \/ CallLockRegistry
  \/ CallConsume
  \/ CallNotified
  \/ InnerTimeout
  \/ OuterTimeout
  \/ Tick
  \/ ListenerRead
  \/ ListenerReadEof
  \/ ListenerWouldBlock
  \/ ListenerWake
  \/ ListenerReadError
  \/ ListenerEntry
  \/ ListenerLockRegistry
  \/ ListenerAdd
  \/ \E f \in PeerFrames : PeerSend(f)
  \/ PeerClose
  \/ PeerReset

MethodSpec == MethodInit /\ [][MethodNext]_vars

\* ---------------------------------------------------------- get_rgb_color
\* values of a u8 argument that are tried
Bytes == {0, 1, 2, 127, 128, 254, 255}

\* x << n on an i32 whose result stays below 2^31
Shl(x, n) == x * (2 ^ n)

\* a | b on non-negative i32 values, bit by bit
RECURSIVE BitOr(_, _)
BitOr(a, b) ==
  IF a = 0 THEN b
  ELSE IF b = 0 THEN a
  ELSE (IF a % 2 = 1 \/ b % 2 = 1 THEN 1 ELSE 0)
         + 2 * BitOr(a \div 2, b \div 2)

\* (the red byte shifted like the green one)
get_rgb_color_red_shift_8(r, g, b) == BitOr(BitOr(Shl(r, 8), Shl(g, 8)), b)

\* (r as i32) << 16 | (g as i32) << 8 | (b as i32)
get_rgb_color(r, g, b) == BitOr(BitOr(Shl(r, 16), Shl(g, 8)), b)

RgbInit ==
  /\ DeviceInit
  /\ command_id = I32(0, 15)
  /\ returned = << >>
  /\ rgb \in [r : Bytes, g : Bytes, b : Bytes, out : {-1}]
  /\ cmd = NoCmd

GetRgbColor ==
  /\ rgb.out = -1
  /\ rgb' = [rgb EXCEPT !.out = get_rgb_color(rgb.r, rgb.g, rgb.b)]
  /\ UNCHANGED <<dvars, command_id, returned, cmd>>

RgbNext == GetRgbColor

RgbSpec == RgbInit /\ [][RgbNext]_vars

\* ------------------------------------------------- Command to JSON and back
\* enum Method (src/src/method.rs), its variants in the order declared: the
\* name serde gives the variant (rename_all = "snake_case", or the rename
\* attribute), the kind of the variant, and the fields of the value that
\* is tried for it, written as the JSON values they serialize to.
MethodVariants ==
  <<
    [variant |-> "GetProp", name |-> "get_prop", kind |-> "newtype",
     args |-> <<"power">>],
    [variant |-> "GetProps", name |-> "get_prop", kind |-> "newtype",
     args |-> <<<<"power", "rgb", "bg_rgb">>>>],
    [variant |-> "Toggle", name |-> "toggle", kind |-> "unit",
     args |-> <<>>],
    [variant |-> "SetPower", name |-> "set_power", kind |-> "newtype",
     args |-> <<"true">>],
    [variant |-> "SetPowerEffect", name |-> "set_power", kind |-> "tuple",
     args |-> <<"true", "smooth">>],
    [variant |-> "SetPowerEffectDuration", name |-> "set_power", kind |-> "tuple",
     args |-> <<"true", "smooth", "500">>],
    [variant |-> "SetRgb", name |-> "set_rgb", kind |-> "newtype",
     args |-> <<"16711680">>],
    [variant |-> "SetRgbEffect", name |-> "set_rgb", kind |-> "tuple",
     args |-> <<"16711680", "smooth">>],
    [variant |-> "SetRgbEffectDuration", name |-> "set_rgb", kind |-> "tuple",
     args |-> <<"16711680", "smooth", "500">>],
    [variant |-> "SetHsv", name |-> "set_hsv", kind |-> "tuple",
     args |-> <<"359", "100">>],
    [variant |-> "SetHsvEffect", name |-> "set_hsv", kind |-> "tuple",
     args |-> <<"359", "100", "sudden">>],
    [variant |-> "SetHsvEffectDuration", name |-> "set_hsv", kind |-> "tuple",
     args |-> <<"359", "100", "smooth", "500">>],
    [variant |-> "SetBright", name |-> "set_bright", kind |-> "newtype",
     args |-> <<"50">>],
    [variant |-> "SetBrightEffect", name |-> "set_bright", kind |-> "tuple",
     args |-> <<"50", "sudden">>],
    [variant |-> "SetBrightEffectDuration", name |-> "set_bright", kind |-> "tuple",
     args |-> <<"50", "smooth", "500">>],
    [variant |-> "SetDefault", name |-> "set_default", kind |-> "unit",
     args |-> <<>>],
    [variant |-> "BgSetRgb", name |-> "bg_set_rgb", kind |-> "newtype",
     args |-> <<"255">>],
    [variant |-> "BgSetRgbEffect", name |-> "bg_set_rgb", kind |-> "tuple",
     args |-> <<"255", "smooth">>],
    [variant |-> "BgSetRgbEffectDuration", name |-> "bg_set_rgb", kind |-> "tuple",
     args |-> <<"255", "smooth", "500">>],
    [variant |-> "BgSetHsv", name |-> "bg_set_hsv", kind |-> "tuple",
     args |-> <<"0", "0">>],
    [variant |-> "BgSetHsvEffect", name |-> "bg_set_hsv", kind |-> "tuple",
     args |-> <<"0", "0", "sudden">>],
    [variant |-> "BgSetHsvEffectDuration", name |-> "bg_set_hsv", kind |-> "tuple",
     args |-> <<"0", "0", "smooth", "500">>],
    [variant |-> "BgSetDefault", name |-> "bg_set_default", kind |-> "unit",
     args |-> <<>>],
    [variant |-> "BgSetPower", name |-> "bg_set_power", kind |-> "newtype",
     args |-> <<"false">>],
    [variant |-> "BgSetPowerEffect", name |-> "bg_set_power", kind |-> "tuple",
     args |-> <<"false", "sudden">>],
    [variant |-> "BgSetPowerEffectDuration", name |-> "bg_set_power", kind |-> "tuple",
     args |-> <<"false", "smooth", "500">>],
    [variant |-> "BgSetBright", name |-> "bg_set_bright", kind |-> "newtype",
     args |-> <<"1">>],
    [variant |-> "BgSetBrightEffect", name |-> "bg_set_bright", kind |-> "tuple",
     args |-> <<"1", "sudden">>],
    [variant |-> "BgSetBrightEffectDuration", name |-> "bg_set_bright", kind |-> "tuple",
     args |-> <<"1", "smooth", "500">>],
    [variant |-> "SetCtAbx", name |-> "set_ct_abx", kind |-> "newtype",
     args |-> <<"1700">>],
    [variant |-> "SetCtAbxEffect", name |-> "set_ct_abx", kind |-> "tuple",
     args |-> <<"1700", "sudden">>],
    [variant |-> "SetCtAbxEffectDuration", name |-> "set_ct_abx", kind |-> "tuple",
     args |-> <<"1700", "smooth", "500">>],
    [variant |-> "BgSetCtAbx", name |-> "bg_set_ct_abx", kind |-> "newtype",
     args |-> <<"6500">>],
    [variant |-> "BgSetCtAbxEffect", name |-> "bg_set_ct_abx", kind |-> "tuple",
     args |-> <<"6500", "sudden">>],
    [variant |-> "BgSetCtAbxEffectDuration", name |-> "bg_set_ct_abx", kind |-> "tuple",
     args |-> <<"6500", "smooth", "500">>]
  >>

Methods ==
  {[variant |-> MethodVariants[k].variant, args |-> MethodVariants[k].args] :
     k \in DOMAIN MethodVariants}

CmdIds == {0, 1, 15}

VariantOf(method) ==
  MethodVariants[CHOOSE k \in DOMAIN MethodVariants :
                   MethodVariants[k].variant = method.variant]

\* method.get_params(): the fields of the variant as JSON values; the list
\* of GetProps is the parameter list itself
get_params(method) ==
  IF method.variant = "GetProps" THEN method.args[1] ELSE method.args

\* Command::new(id, method)
Command(id, method) ==
  [id |-> id, method |-> method, params |-> get_params(method)]

\* variant_name_only: serde_variant::to_variant_name(method)
variant_name_only(method) == VariantOf(method).name

\* serde_json::to_string(&command): the fields serde writes
to_string(command) ==
  [id |-> command.id, method |-> variant_name_only(command.method),
   params |-> command.params]

\* serde_json::from_str::<Command>(json) with the derived Deserialize of
\* Command and of Method: the field method holds a JSON string, which
\* serde_json reads as a variant without content.  The first variant of
\* that name is taken; a unit variant is accepted, a newtype or tuple
\* variant is an error (invalid type: unit variant).
from_str(json) ==
  LET named == {k \in DOMAIN MethodVariants :
                  MethodVariants[k].name = json.method} IN
    IF named = {} THEN [ok |-> FALSE]
    ELSE LET v == MethodVariants[CHOOSE k \in named :
                                   \A j \in named : k <= j] IN
           IF v.kind = "unit"
           THEN [ok |-> TRUE,
                 command |-> [id |-> json.id,
                              method |-> [variant |-> v.variant,
                                          args |-> << >>],
                              params |-> json.params]]
           ELSE [ok |-> FALSE]

CmdInit ==
  /\ DeviceInit
  /\ rev = "src"
  /\ command_id = I32(0, 15)
  /\ returned = << >>
  /\ rgb = NoRgb
  /\ cmd \in {[stage |-> "new", command |-> Command(i, m)] :
                i \in CmdIds, m \in Methods}

CmdSerialize ==
  /\ cmd.stage = "new"
  /\ cmd' = [stage |-> "json", command |-> cmd.command,
             json |-> to_string(cmd.command)]
  /\ UNCHANGED <<dvars, command_id, returned, rgb>>

CmdParse ==
  /\ cmd.stage = "json"
  /\ cmd' = [stage |-> "parsed", command |-> cmd.command,
             json |-> cmd.json, parsed |-> from_str(cmd.json)]
  /\ UNCHANGED <<dvars, command_id, returned, rgb>>

CmdNext == CmdSerialize \/ CmdParse

CmdSpec == CmdInit /\ [][CmdNext]_vars

\* ================================================================ claims

\* C1: whenever execute_command(c) returns success, the response returned
\* carries c.id, whatever other responses are in the registry and in
\* whatever order the responses arrived.
C1_ResponseIdMatches ==
  call.outcome = "Ok" => call.result.id = call.id

\* a call has returned its own response while the response to another
\* request is in the registry
C1_Witness ==
  /\ call.outcome = "Ok"
  /\ call.result.id = call.id
  /\ \E k \in DOMAIN responses : k # call.id

\* C2 (as claimed): a call whose matching response is inserted into the
\* registry before the call's deadline (the outer timeout) returns that
\* response and does not end in Timeout.
C2_ArrivedBeforeDeadlineIsReturned ==
  (call.pc = "done" /\ call.arrived) => call.outcome = "Ok"

C4_PresentIsReturned ==
  (call.pc = "done" /\ call.present) => call.outcome = "Ok"

\* C5 (as claimed): a call that returns without a response after the
\* listener has ended on end of stream or on an I/O error of the socket
\* returns ConnectionClosed, not Timeout.
C5_ClosedNotTimeout ==
  (call.pc = "done" /\ call.lended /\ lerr # "Utf8"
     /\ call.outcome \notin {"Ok", "Io"})
     => call.outcome = "ConnectionClosed"

\* C6 (as claimed): a malformed frame (text that is no JSON, or bytes that
\* are no UTF-8) never terminates the listener task: the task ends only on
\* end of stream or on a read error of the socket.
C6_MalformedFrameSkipped ==
  lpc = "failed" => lerr = "Io"

\* C7 (as claimed): a response frame whose bytes arrive in two reads is
\* reassembled: when the listener has read all the bytes that arrived and
\* done all their entries, every whole response frame that was sent has
\* been inserted exactly once.
C7_SplitFrameReassembled ==
  (lpc \in {"lock", "sleep"} /\ wire = << >>) => \A i \in Ids : owed[i] = 0

\* C8 (as claimed): no entry is retained indefinitely: when the listener
\* has ended and no call is in progress, the registry holds no response to
\* a request whose call returned Timeout.
Abandoned ==
  timedOut \cup (IF call.outcome = "Timeout" THEN {call.id} ELSE {})

C8_NoAbandonedEntryLeft ==
  (ListenerEnded /\ call.pc = "done") => DOMAIN responses \cap Abandoned = {}

\* C9: a call that waits and for which no response with its id is in the
\* registry or inserted into it before the deadline returns Timeout, never
\* a success value.
C9_NoResponseIsTimeout ==
  (call.pc = "done" /\ call.outcome # "Io"
     /\ ~call.present /\ ~call.arrived) => call.outcome = "Timeout"

\* a call has returned Timeout while the registry held only the response
\* to another request
C9_Witness ==
  /\ call.pc = "done"
  /\ call.outcome = "Timeout"
  /\ ~call.present /\ ~call.arrived
  /\ DOMAIN responses # {}
  /\ call.id \notin DOMAIN responses

\* C10: a response inserted into the registry is returned to at most one
\* call: once a call has obtained the entry of an id, the entry is absent
\* for every later consume of that id until a response with that id is
\* inserted again.
C10_ConsumedEntryIsGone ==
  \A k \in delivered : k \notin DOMAIN responses

\* a second call with the id of a response that was already returned has
\* checked the registry, found no entry and waits
C10_Witness ==
  /\ rev = "apyee"
  /\ call.n > 1
  /\ call.id \in delivered
  /\ call.pc = "wait"

\* C11: request frames never interleave on the stream.  The bytes written
\* are whole frames (the JSON text and exactly one CRLF each), followed at
\* most by the first part of one more frame: the one the call that holds
\* the stream lock is writing, or the one a reset of the connection cut.
RECURSIVE WholeFrames(_)
WholeFrames(s) ==
  \/ s = << >>
  \/ /\ Len(s) >= 3
     /\ s[1].sym = "text" /\ s[1].part = 1
     /\ s[2].sym = "text" /\ s[2].part = 2 /\ s[2].doc = s[1].doc
     /\ s[3] = CRLF
     /\ WholeFrames(SubSeq(s, 4, Len(s)))

BeingWritten == IF call.pc = "write" THEN call.pos ELSE 0

C11_FramesNeverInterleave ==
  \/ WholeFrames(SubSeq(outbox, 1, Len(outbox) - BeingWritten))
  \/ /\ peer = "error"
     /\ \E k \in 1..2 : /\ k <= Len(outbox)
                        /\ WholeFrames(SubSeq(outbox, 1, Len(outbox) - k))
                        /\ \E i \in Ids :
                             SubSeq(outbox, Len(outbox) - k + 1, Len(outbox))
                               = SubSeq(Text(CommandDoc(i)), 1, k)

\* the second call has written a part of its frame behind the whole frame
\* of the first call, while the listener waits for the stream lock with
\* bytes to read
C11_Witness ==
  /\ call.n = 2
  /\ call.pc = "write"
  /\ call.pos \in 1..2
  /\ Len(outbox) = 3 + call.pos
  /\ streamLock = Caller
  /\ lpc = "lock"
  /\ wire # << >>

\* C12 (as claimed): no task holds the stream mutex or the registry mutex
\* while it is suspended in a sleep, in the wait for another lock or in
\* the wait for a notification.
C12_NoLockAcrossSuspension ==
  /\ lpc \in {"sleep", "lock_reg"}
       => (streamLock # Listener /\ regLock # Listener)
  /\ call.pc \in {"lock_stream", "lock_reg", "wait"}
       => (streamLock # Caller /\ regLock # Caller)

\* C13 (as claimed): a call on an established connection returns success,
\* Timeout or ConnectionClosed, and no other kind of error.
C13_OnlySurfacedOutcomes ==
  call.pc = "done" => call.outcome \in {"Ok", "Timeout", "ConnectionClosed"}

\* C16: one call sends its request frame once and then ends in one
\* outcome.  Bytes go to the stream only while the call is in its write,
\* and only the bytes of its one frame that were not written yet; once the
\* write is over the call never goes back to it (not after a wake that
\* found no response, not after a timeout); once it has returned, its
\* outcome stays.
AfterSend == {"lock_reg", "consume", "notified", "wait", "done"}

C16_SendsOnceEndsOnce ==
  [][/\ outbox' # outbox
          => /\ call.pc = "write" /\ call'.n = call.n
             /\ outbox' = outbox \o SubSeq(JsonCommand(call.id),
                                            call.pos + 1, call'.pos)
     /\ (call.pc \in AfterSend /\ call'.n = call.n)
          => call'.pc \in AfterSend
     /\ call'.pc = "done" => call'.outcome \in {"Ok", "Timeout", "Io"}
     /\ (call.pc = "done" /\ call'.n = call.n)
          => (call'.pc = "done" /\ call'.outcome = call.outcome)]_vars

\* a call that was woken without finding its response, waited again and
\* timed out has returned, and its one frame is all that is on the stream
C16_Witness ==
  /\ call.pc = "done"
  /\ call.outcome = "Timeout"
  /\ call.age > InnerWindow
  /\ outbox = JsonCommand(call.id)

\* C20: a call that is woken from its wait by the insertion of a response
\* for another id, its own not being there, does not return that response: it checks the registry
\* for its own id, waits again, and returns its own response when that is
\* inserted afterwards, before the call has returned; the entry of the
\* other id stays in the registry.
C20_WokenByOtherStillResolves ==
  /\ call.woke # "none" => \E j \in DOMAIN responses : j # call.id
  /\ (call.woke = "other" /\ call.pc = "done") => call.outcome = "Timeout"
  /\ (call.woke = "own" /\ call.pc = "done")
       => (call.outcome = "Ok" /\ call.result.id = call.id)

\* a call woken by the response to another request has afterwards returned
\* its own response, and the other response is still in the registry
C20_Witness ==
  /\ call.pc = "done"
  /\ call.woke = "own"
  /\ call.outcome = "Ok"
  /\ call.result.id = call.id
  /\ call.age > 0
  /\ \E j \in DOMAIN responses : j # call.id

\* C14 (as claimed): each entry is counted as at most one of Response and
\* Notification: an entry accepted as a Response is not also accepted by
\* the Notification parse.
C14_AtMostOneKind ==
  Cardinality(handled.as) <= 1

\* C18: an entry with an id and a result list and no error field is
\* accepted as a Response with error absent and is in the registry under
\* its id once it is handled, as an entry with "error": null is.
PlainResponse(d, error) ==
  /\ d.json
  /\ d.id \in Ids
  /\ d.result = "list"
  /\ d.error = error

C18_NoErrorFieldIsResponse ==
  \A error \in {"absent", "null"} :
    PlainResponse(handled.doc, error)
      => /\ "response" \in handled.as
         /\ handled.doc.id \in DOMAIN responses
         /\ responses[handled.doc.id] = [id |-> handled.doc.id,
                                          error |-> "none"]

\* the listener has just handled {"id":i,"result":[..]} and the response
\* is in the registry
C18_Witness ==
  /\ PlainResponse(handled.doc, "absent")
  /\ handled.doc.method = "absent"
  /\ handled.doc.params = "absent"
  /\ handled.as = {"response"}
  /\ handled.doc.id \in DOMAIN responses
  /\ lpc = "entry"

\* C15: UniqueCommandId::next is an atomic post-increment: the k-th call,
\* whichever task makes it, returns the first value plus k - 1 modulo
\* 2^32, the values returned are pairwise distinct, and past i32::MAX the
\* counter goes on at i32::MIN.
Plus32(v, n) ==
  I32((v.hi + ((v.lo + n) \div Limb)) % Limb, (v.lo + n) % Limb)

C15_NextIsPostIncrement ==
  /\ \A k \in 1..Len(returned) :
       returned[k].value = Plus32(returned[1].value, k - 1)
  /\ \A j, k \in 1..Len(returned) :
       returned[j].value = returned[k].value => j = k
  /\ returned # << >> => command_id = Plus32(returned[1].value, Len(returned))
  /\ \A k \in 1..Len(returned) - 1 :
       returned[k].value = MaxI32 => returned[k + 1].value = MinI32

\* two tasks have called next in turn, and the counter has passed i32::MAX
C15_Witness ==
  /\ Len(returned) = 4
  /\ returned[1].thread # returned[2].thread
  /\ returned[3].thread # returned[4].thread
  /\ returned[2].value = MaxI32
  /\ returned[3].value = MinI32

\* C19: get_rgb_color(r, g, b) is r*65536 + g*256 + b, lies in
\* 0..16777215, and is different for different (r, g, b); (255, 0, 0)
\* gives 16711680.
C19_RgbIsPacked ==
  rgb.out # -1 =>
    /\ rgb.out = rgb.r * 65536 + rgb.g * 256 + rgb.b
    /\ rgb.out \in 0..16777215
    /\ \A r, g, b \in Bytes :
         get_rgb_color(r, g, b) = rgb.out
           => (r = rgb.r /\ g = rgb.g /\ b = rgb.b)
    /\ (rgb.r = 255 /\ rgb.g = 0 /\ rgb.b = 0) => rgb.out = 16711680

\* the colour (255, 128, 1), whose bytes set bits in all three places, has
\* been packed
C19_Witness ==
  /\ rgb.r = 255 /\ rgb.g = 128 /\ rgb.b = 1
  /\ rgb.out = 16744449

\* C17 (as claimed): a Command that is serialized and parsed back from the
\* JSON emitted is equal to the original in id, method and params, for
\* every variant of Method.
C17_CommandRoundTrip ==
  cmd.stage = "parsed" => (cmd.parsed.ok /\ cmd.parsed.command = cmd.command)

\* C21: the listener ends only from its read: a read of zero bytes ends it
\* normally (closed), a read error other than WouldBlock ends it with that
\* error (failed); a WouldBlock read makes it sleep, the registry and the
\* notification state as they were, and after the sleep it reads again.
\* Once the task has ended it stays ended and nothing is inserted into the
\* registry any more.
Inserted ==
  \E k \in DOMAIN responses' :
    k \notin DOMAIN responses \/ responses'[k] # responses[k]

C21_ListenerEndsAndStaysEnded ==
  [][/\ (lpc # "closed" /\ lpc' = "closed")
          => (lpc = "lock" /\ peer = "eof" /\ wire = << >> /\ lerr' = "none")
     /\ (lpc = "lock" /\ peer = "error" /\ lpc' # lpc)
          => (lpc' = "failed" /\ lerr' = "Io")
     /\ (lpc = "lock" /\ lpc' = "sleep")
          => (peer = "open" /\ wire = << >> /\ responses' = responses
              /\ permit' = permit /\ waiters' = waiters)
     /\ (lpc = "sleep" /\ lpc' # lpc) => lpc' = "lock"
     /\ ListenerEnded
          => (lpc' = lpc /\ lerr' = lerr /\ ~Inserted
              /\ \A i \in Ids : owed'[i] >= owed[i])]_vars

\* the listener inserted a response, then ended on a read error with a
\* whole response frame still unread, while a call waits
C21_Witness ==
  /\ lpc = "failed"
  /\ lerr = "Io"
  /\ DOMAIN responses # {}
  /\ \E i \in Ids : owed[i] > 0
  /\ call.pc = "wait"

\* --------------------------------------------------------------- progress
\* One call on a Device whose peer sends response frames only.  The states
\* a later call starts from (entries and a permit left in place) are
\* reached here by frames that arrive before the call is made; frames of
\* other kinds wake no call, and what ends the listener is here the close
\* or the reset of the connection.
LivePeerFrames == {Frame(ResponseDoc(i)) : i \in Ids}

LiveNext ==
  \/ \E i \in CallIds : call.n = 0 /\ CallStart(i)
  \/ CallLockStream
  \/ CallWrite
  \/ CallWriteFails
  \/ CallLockRegistry
  \/ CallConsume
  \/ CallNotified
  \/ InnerTimeout
  \/ OuterTimeout
  \/ Tick
  \/ ListenerRead
  \/ ListenerReadEof
  \/ ListenerWouldBlock
  \/ ListenerWake
  \/ ListenerReadError
  \/ ListenerEntry
  \/ ListenerLockRegistry
  \/ ListenerAdd
  \/ \E f \in LivePeerFrames : PeerSend(f)
  \/ PeerClose
  \/ PeerReset

\* The call is a task the runtime polls whenever it can run, its timers
\* fire, and time passes while it waits.  The registry mutex is fair (tokio
\* queues its waiters) and the listener holds it only for the add, which
\* does not suspend.  Nothing is assumed about the peer or about the
\* listener's reads.
Progress ==
  /\ SF_vars(CallLockRegistry)
  /\ WF_vars(CallConsume)
  /\ WF_vars(CallNotified)
  /\ WF_vars(InnerTimeout)
  /\ WF_vars(OuterTimeout)
  /\ WF_vars(Tick)
  /\ WF_vars(ListenerAdd)

LiveSpec == Init /\ [][LiveNext]_vars /\ Progress

\* C22: every call terminates once its frame is written: from then on it
\* is never older than the outer deadline, and it returns (a response or
\* an error), also when the listener has ended and nothing is inserted.
C22_CallTerminatesWithinDeadline ==
  /\ [](call.age <= OuterDeadline)
  /\ (call.pc \in AfterSend) ~> (call.pc = "done")

\* a call that wrote its frame after the listener had ended has returned
\* Timeout, the registry empty
C22_Witness ==
  /\ call.pc = "done"
  /\ call.outcome = "Timeout"
  /\ call.lended
  /\ ~call.arrived
  /\ lpc = "closed"
  /\ responses = << >>
  /\ outbox = JsonCommand(call.id)

\* C23: the registry is a map from ids to responses whose every entry is
\* filed under the id of its response.  An insertion puts the response
\* under its id: when the id was there already the older response is
\* replaced and the number of entries stays, otherwise the number grows by
\* one; the entries of all other ids stay as they were.
C23_OneEntryPerId ==
  /\ [](\A k \in DOMAIN responses : responses[k].id = k)
  /\ [][(lpc = "add" /\ lpc' = "entry")
          => LET r == CommandResponse(Head(entries))
                 n == Cardinality(DOMAIN responses) IN
               /\ DOMAIN responses' = DOMAIN responses \cup {r.id}
               /\ responses'[r.id] = r
               /\ \A k \in DOMAIN responses \ {r.id} :
                    responses'[k] = responses[k]
               /\ Cardinality(DOMAIN responses')
                    = IF r.id \in DOMAIN responses THEN n ELSE n + 1]_vars

\* a response without an error has just replaced the response with an
\* error that the registry held under the same id
C23_Witness ==
  /\ lpc = "entry"
  /\ "response" \in handled.as
  /\ handled.old = [id |-> handled.doc.id, error |-> "some"]
  /\ responses = (handled.doc.id :> [id |-> handled.doc.id, error |-> "none"])

\* C24: an entry that is a Notification (method and params, no id) has no
\* effect: when the listener has dealt with it, the registry, the stored
\* permit, the waiters and the call are as they were.  An entry comes into
\* the registry, and a call is woken or a permit stored, only by the step
\* that adds an entry accepted as a Response, and that step does both.
IsNotification(e) == ParsesAsNotificationResult(e) /\ e[1].doc.id \notin Ids

Woken ==
  \/ permit' /\ ~permit
  \/ call.pc = "wait" /\ call'.pc = "lock_reg"

C24_NotificationHasNoEffect ==
  [][/\ (/\ lpc = "entry" /\ entries # << >>
          /\ IsNotification(Head(entries))
          /\ (lpc' # lpc \/ entries' # entries))
          => /\ lpc' = "entry" /\ entries' = Tail(entries)
             /\ handled'.as = {"notification"}
             /\ responses' = responses /\ permit' = permit
             /\ waiters' = waiters /\ call' = call
     /\ (Inserted \/ Woken)
          => /\ lpc = "add" /\ lpc' = "entry"
             /\ "response" \in handled'.as
             /\ handled'.doc.id \in DOMAIN responses'
             /\ IF call.pc = "wait"
                THEN call'.pc = "lock_reg" /\ waiters' = << >>
                ELSE permit']_vars

\* the listener has just dealt with a Notification while a call waits: the
\* call still waits, no permit is stored and the registry is empty
C24_Witness ==
  /\ lpc = "entry"
  /\ handled.as = {"notification"}
  /\ handled.doc.id \notin Ids
  /\ call.pc = "wait"
  /\ waiters = <<Caller>>
  /\ ~permit
  /\ responses = << >>

\* C25: the tasks never deadlock.  The listener takes the registry lock
\* only while it holds the stream lock; a call holds at most one of the
\* two locks and none while it waits for one.  So the two tasks never wait
\* for each other, and a task that cannot take a step waits for a lock
\* whose holder can take one.
CallSteps ==
  \/ CallLockStream
  \/ CallWrite
  \/ CallWriteFails
  \/ CallLockRegistry
  \/ CallConsume
  \/ CallNotified
  \/ InnerTimeout
  \/ OuterTimeout
  \/ Tick

ListenerSteps ==
  \/ ListenerRead
  \/ ListenerReadEof
  \/ ListenerWouldBlock
  \/ ListenerWake
  \/ ListenerReadError
  \/ ListenerEntry
  \/ ListenerLockRegistry
  \/ ListenerAdd

CallWaitsForListener ==
  \/ call.pc = "lock_stream" /\ streamLock = Listener
  \/ call.pc = "lock_reg" /\ regLock = Listener

ListenerWaitsForCall ==
  \/ lpc = "lock" /\ streamLock = Caller
  \/ lpc = "lock_reg" /\ regLock = Caller

C25_NoDeadlock ==
  /\ regLock = Listener => streamLock = Listener
  /\ lpc \in {"lock_reg", "add"} => streamLock = Listener
  /\ ~(streamLock = Caller /\ regLock = Caller)
  /\ call.pc \in {"lock_stream", "lock_reg"}
       => (streamLock # Caller /\ regLock # Caller)
  /\ ~(CallWaitsForListener /\ ListenerWaitsForCall)
  /\ (call.pc \notin {"idle", "done"} /\ ~ENABLED CallSteps)
       => (CallWaitsForListener /\ ENABLED ListenerSteps)
  /\ (~ListenerEnded /\ ~ENABLED ListenerSteps)
       => (ListenerWaitsForCall /\ ENABLED CallSteps)

\* the listener holds the stream lock and waits for the registry lock,
\* which the call, woken by an earlier insertion, holds for its consume
C25_Witness ==
  /\ lpc = "lock_reg"
  /\ streamLock = Listener
  /\ regLock = Caller
  /\ call.pc = "consume"
  /\ call.waited > 0

\* C26: a call returns Timeout as soon as one inner window has passed
\* without a notification: a call that was never woken by an insertion
\* returns at the age of one inner window, well before the outer deadline.
\* No wait lasts longer than the inner window.  The outer deadline ends
\* only calls that an insertion for another id woke from their wait.
C26_InnerWindowDecides ==
  /\ call.waited <= InnerWindow
  /\ InnerWindow < OuterDeadline
  /\ (call.pc = "done" /\ call.outcome = "Timeout")
       => \/ call.cause = "inner" /\ call.waited = InnerWindow
          \/ /\ call.cause = "outer" /\ call.age = OuterDeadline
             /\ call.waited < InnerWindow /\ call.woke = "other"
  /\ (call.pc = "done" /\ call.outcome = "Timeout" /\ call.woke = "none")
       => (call.cause = "inner" /\ call.age = InnerWindow)

\* a call has returned Timeout after one inner window while the listener
\* still runs, and its response has come into the registry since
C26_Witness ==
  /\ call.pc = "done"
  /\ call.outcome = "Timeout"
  /\ call.cause = "inner"
  /\ call.woke = "none"
  /\ call.age = InnerWindow
  /\ ~ListenerEnded
  /\ call.id \in DOMAIN responses

\* C27: with the ids of execute_method a late response is never returned
\* to a later call.  A call never has the id of an earlier call that timed
\* out; a response that is returned carries the id of the call and not
\* the id of a call that timed out; and an entry leaves the registry only
\* in the consume of a call with the id of the entry, so the late entry
\* of a call that timed out stays where it is.
C27_LateResponseNotReturned ==
  /\ [](call.id \notin timedOut)
  /\ []((call.pc = "done" /\ call.outcome = "Ok")
          => (call.result.id = call.id /\ call.result.id \notin timedOut))
  /\ [][\A k \in DOMAIN responses :
          k \notin DOMAIN responses'
            => (call.pc = "consume" /\ call.id = k /\ k \notin timedOut)]_vars

\* the second call has returned its own response; the response to the
\* first call, which had timed out, came while the second call was waiting
\* and is still in the registry
C27_Witness ==
  /\ call.n = 2
  /\ call.pc = "done"
  /\ call.outcome = "Ok"
  /\ call.woke = "own"
  /\ timedOut # {}
  /\ \A k \in timedOut : k \in DOMAIN responses
  /\ Len(returned) = 2
  /\ returned[1].value # returned[2].value

\* C28: a call whose serialization or whose write fails returns that
\* error at once.  The step of the failure ends the call and leaves the
\* registry, its lock, the stored permit and the waiters as they were; a
\* call that returned such an error never started its timeout, never
\* waited and was never woken.
FailureKeeps ==
  /\ responses' = responses
  /\ regLock' = regLock
  /\ permit' = permit
  /\ waiters' = waiters
  /\ delivered' = delivered

C28_FailureReturnsAtOnce ==
  /\ [](call.outcome \in {"Io", "Json"}
          => /\ call.pc = "done"
             /\ call.age = 0 /\ call.waited = 0
             /\ ~call.present /\ ~call.arrived /\ call.woke = "none"
             /\ call.pos < Len(JsonCommand(call.id)))
  /\ [][(call.pc = "write" /\ peer = "error" /\ call' # call)
          => (call'.pc = "done" /\ call'.outcome = "Io" /\ FailureKeeps)]_vars
  /\ [][(call'.outcome = "Json" /\ call' # call)
          => /\ call.pc \in {"idle", "done"}
             /\ call'.pc = "done"
             /\ FailureKeeps
             /\ outbox' = outbox /\ streamLock' = streamLock]_vars

\* a call has returned the error of its write, which the reset of the
\* connection cut short, while the response with its id is in the registry
\* and a permit is stored
C28_Witness ==
  /\ call.pc = "done"
  /\ call.outcome = "Io"
  /\ call.pos \in 1..2
  /\ permit
  /\ call.id \in DOMAIN responses

====
